---- MODULE Spec2Model ----
(***************************************************************************)
(* Minesweeper board, Sentence and MinesweeperAI of src/minesweeper.py.    *)
(*                                                                         *)
(* Cells are pairs <<i, j>> with 0-based coordinates as in the source.     *)
(* knowledge and parent are sequences: position k here is Python index     *)
(* k - 1, so parent holds 1-based positions of knowledge.                  *)
(* add_knowledge is one call split at its loop iterations: the first step  *)
(* runs lines 253-262, every further step is one iteration of the nested   *)
(* loop of lines 264-272; pc = "idle" is "no call in progress".            *)
(***************************************************************************)
EXTENDS Integers, Sequences, FiniteSets, TLC

VARIABLES
    height, width,      \* MinesweeperAI.height / width (= the board's)
    board,              \* Minesweeper.board: the set of cells holding a mine
    moves_made,         \* MinesweeperAI.moves_made
    mines,              \* MinesweeperAI.mines
    safes,              \* MinesweeperAI.safes
    knowledge,          \* MinesweeperAI.knowledge: sequence of sentences
    parent,             \* MinesweeperAI.parent
    pc,                 \* "idle" or "infer" (inside the loop of lines 264-272)
    i, j,               \* loop variables of lines 264-265 (1-based)
    n, m,               \* the two range() bounds, fixed when each loop starts
    nobs,               \* number of add_knowledge calls so far
    nmarks,             \* number of direct mark_mine / mark_safe calls so far
    ret,                \* the cell the last call returned, NoCell for None
    call,               \* the last call: its name, arguments, the sentence it
                        \* returned, and the engine's fields when it was made
    sent, before, lastop, \* a stand-alone Sentence, its value before the
                        \* last operation on it, and that operation's name
    infer_a, infer_b,   \* the arguments of a stand-alone inferences call
    inferred,           \* what that call returned, NotCalled before it
    mines_wanted        \* the argument "mines" of Minesweeper.__init__

vars == <<height, width, board, moves_made, mines, safes, knowledge, parent,
          pc, i, j, n, m, nobs, nmarks, ret, call, sent, before, lastop,
          infer_a, infer_b, inferred, mines_wanted>>

aiVars == <<height, width, board, moves_made, mines, safes, knowledge, parent,
            pc, i, j, n, m, nobs, nmarks, ret, call>>

sentVars == <<sent, before, lastop>>

argVars == <<infer_a, infer_b, inferred, mines_wanted>>

----------------------------------------------------------------------------
(* Bounds of the exploration *)

\* board sizes explored, <<height, width>>
Dims == {<<2, 3>>, <<3, 2>>, <<2, 2>>}

\* add_knowledge calls per behaviour
MaxObs == 3

\* add_knowledge calls per behaviour on the 3x3 scenario board
ScenarioObs == 5

\* state-changing calls per behaviour when the caller is unconstrained
MaxCalls == 2

\* largest count a caller passes when counts are not taken from the board
MaxCount == 3

\* cells a stand-alone sentence is built from
SentCells == {<<0, 0>>, <<0, 1>>, <<0, 2>>, <<1, 0>>}

----------------------------------------------------------------------------
(* Values *)

\* Python's None as a returned sentence
None == [none |-> TRUE]

\* Python's None as a returned cell
NoCell == <<>>

\* the result slot of a call that has not been made
NotCalled == [called |-> FALSE]

\* a call record: what was called with what, what sentence it returned,
\* and the engine as the call found it
Call(op, cell, count, result) ==
    [op |-> op, cell |-> cell, count |-> count, result |-> result,
     moves_made |-> moves_made, mines |-> mines, safes |-> safes,
     knowledge |-> knowledge, parent |-> parent]

Cells == {<<r, c>> : r \in 0 .. height - 1, c \in 0 .. width - 1}

\* the cells within one row and column of cell, in bounds, cell excluded
Neighbors(cell) ==
    {x \in Cells : /\ x # cell
                   /\ x[1] \in cell[1] - 1 .. cell[1] + 1
                   /\ x[2] \in cell[2] - 1 .. cell[2] + 1}

\* Minesweeper.nearby_mines
nearby_mines(cell) == Cardinality(Neighbors(cell) \cap board)

\* Minesweeper.is_mine
is_mine(cell) == cell \in board

----------------------------------------------------------------------------
(* class Sentence *)

\* Sentence.__init__
Sentence(cells, count) ==
    [cells |-> cells, count |-> count, safe_cells |-> {}, mines_cells |-> {}]

\* Sentence.__eq__
Sentence_eq(self, other) ==
    self.cells = other.cells /\ self.count = other.count

\* conclude with the second branch forgetting self.cells.clear()
conclude_keep_cells(s) ==
    LET s1 == IF s.count = 0
              THEN [s EXCEPT !.safe_cells = @ \cup s.cells, !.cells = {}]
              ELSE s
    IN  IF s1.count = Cardinality(s1.cells)
        THEN [s1 EXCEPT !.mines_cells = @ \cup s1.cells]
        ELSE s1

\* Sentence.conclude: two independent ifs, the second reads the cells the
\* first may have cleared
conclude(s) ==
    LET s1 == IF s.count = 0
              THEN [s EXCEPT !.safe_cells = @ \cup s.cells, !.cells = {}]
              ELSE s
    IN  IF s1.count = Cardinality(s1.cells)
        THEN [s1 EXCEPT !.mines_cells = @ \cup s1.cells, !.cells = {}]
        ELSE s1

\* Sentence.mark_mine without "self.count -= 1"
Sentence_mark_mine_keeps_count(s, cell) ==
    IF cell \notin s.cells
    THEN s
    ELSE conclude([s EXCEPT !.cells = s.cells \ {cell},
                           !.mines_cells = s.mines_cells \cup {cell}])

\* Sentence.mark_mine
Sentence_mark_mine(s, cell) ==
    IF cell \notin s.cells
    THEN s
    ELSE conclude([s EXCEPT !.cells = @ \ {cell},
                            !.mines_cells = @ \cup {cell},
                            !.count = @ - 1])

\* Sentence.mark_safe
Sentence_mark_safe(s, cell) ==
    IF cell \notin s.cells
    THEN s
    ELSE conclude([s EXCEPT !.cells = @ \ {cell},
                            !.safe_cells = @ \cup {cell}])

----------------------------------------------------------------------------
(* class MinesweeperAI: helpers on values *)

\* the loop of MinesweeperAI.mark_mine over a knowledge list
BroadcastMine(kn, cell) == [k \in DOMAIN kn |-> Sentence_mark_mine(kn[k], cell)]

\* the loop of MinesweeperAI.mark_safe over a knowledge list
BroadcastSafe(kn, cell) == [k \in DOMAIN kn |-> Sentence_mark_safe(kn[k], cell)]

\* get_sentence without "score -= 1" for a neighbour known to be a mine
get_sentence_no_decrement(cell, score, ms, sf) ==
    Sentence({x \in Neighbors(cell) : x \notin ms /\ x \notin sf}, score)

\* the cells the nested loop of get_sentence (lines 204-215) gets past its
\* "continue" and its bounds test with: i in range(cell[0] - 1, cell[0] + 2),
\* j in range(cell[1] - 1, cell[1] + 2)
get_sentence_visited(cell) ==
    {x \in {<<a, b>> : a \in cell[1] - 1 .. cell[1] + 1,
                       b \in cell[2] - 1 .. cell[2] + 1} :
        /\ x # cell
        /\ 0 <= x[1] /\ x[1] < height
        /\ 0 <= x[2] /\ x[2] < width}

\* get_sentence without the test "(i, j) not in self.safes"
get_sentence_keeps_safes(cell, score, ms, sf) ==
    Sentence({x \in get_sentence_visited(cell) : x \notin ms},
             score - Cardinality(get_sentence_visited(cell) \cap ms))

\* MinesweeperAI.get_sentence, reading the given mines and safes: score
\* loses one per visited cell in mines, neighbors gains every visited cell
\* in neither mines nor safes
get_sentence(cell, score, ms, sf) ==
    Sentence({x \in get_sentence_visited(cell) : x \notin ms /\ x \notin sf},
             score - Cardinality(get_sentence_visited(cell) \cap ms))

\* inferences giving the new sentence the count of sentence_b
inferences_no_subtract(sentence_a, sentence_b) ==
    IF Cardinality(sentence_a.cells) = 0
    THEN None
    ELSE IF sentence_a.cells \subseteq sentence_b.cells
         THEN LET new_sentence == Sentence(sentence_b.cells \ sentence_a.cells,
                                           sentence_b.count)
              IN  IF Cardinality(new_sentence.cells) # 0
                  THEN new_sentence
                  ELSE None
         ELSE None

\* inferences without the test "len(new_sentence.cells) != 0"
inferences_keeps_empty(sentence_a, sentence_b) ==
    IF Cardinality(sentence_a.cells) = 0
    THEN None
    ELSE IF sentence_a.cells \subseteq sentence_b.cells
         THEN Sentence(sentence_b.cells \ sentence_a.cells,
                       sentence_b.count - sentence_a.count)
         ELSE None

\* MinesweeperAI.inferences
inferences(sentence_a, sentence_b) ==
    IF Cardinality(sentence_a.cells) = 0
    THEN None
    ELSE IF sentence_a.cells \subseteq sentence_b.cells
         THEN LET new_sentence == Sentence(sentence_b.cells \ sentence_a.cells,
                                           sentence_b.count - sentence_a.count)
              IN  IF Cardinality(new_sentence.cells) # 0
                  THEN new_sentence
                  ELSE None
         ELSE None

\* the loop of lines 259-262: conclude every sentence
ConcludeAll(kn) == [k \in DOMAIN kn |-> conclude(kn[k])]

\* what that loop folds into safes / mines
AllKnownSafes(kn) == UNION {kn[k].safe_cells : k \in DOMAIN kn}

\* the loop without its line 262, self.mines.update(...)
AllKnownMines_dropped(kn) == {}

AllKnownMines(kn) == UNION {kn[k].mines_cells : k \in DOMAIN kn}

----------------------------------------------------------------------------
(* Initial states *)

FreshAI ==
    /\ moves_made = {}
    /\ mines = {}
    /\ safes = {}
    /\ knowledge = <<>>
    /\ parent = <<>>
    /\ pc = "idle"
    /\ i = 0 /\ j = 0 /\ n = 0 /\ m = 0
    /\ nobs = 0
    /\ nmarks = 0
    /\ ret = NoCell
    /\ call = Call("__init__", NoCell, 0, None)

NoSentence ==
    /\ sent = Sentence({}, 0)
    /\ before = Sentence({}, 0)
    /\ lastop = "none"

NoArgs ==
    /\ infer_a = Sentence({}, 0)
    /\ infer_b = Sentence({}, 0)
    /\ inferred = NotCalled
    /\ mines_wanted = 0

\* a game: any board of an explored size with at least one cell free of mines
Init ==
    /\ \E d \in Dims : height = d[1] /\ width = d[2]
    /\ board \in SUBSET Cells
    /\ board # Cells
    /\ FreshAI
    /\ NoSentence
    /\ NoArgs

----------------------------------------------------------------------------
(* MinesweeperAI.add_knowledge *)

\* add_knowledge with "self.safes.add(cell)" in place of self.mark_safe(cell)
add_knowledge_no_broadcast(cell, count) ==
    /\ pc = "idle"
    /\ LET sf1 == safes \cup {cell}
           kn2 == Append(knowledge, get_sentence(cell, count, mines, sf1))
           kn3 == ConcludeAll(kn2)
       IN  /\ moves_made' = moves_made \cup {cell}
           /\ knowledge' = kn3
           /\ parent' = Append(parent, Len(kn2))
           /\ safes' = sf1 \cup AllKnownSafes(kn3)
           /\ mines' = mines \cup AllKnownMines(kn3)
           /\ pc' = "infer"
           /\ i' = 1 /\ j' = 1
           /\ n' = Len(kn3) /\ m' = Len(kn3)
    /\ nobs' = nobs + 1
    /\ ret' = NoCell
    /\ call' = Call("add_knowledge", cell, count, None)
    /\ UNCHANGED <<height, width, board, nmarks, sentVars, argVars>>

\* lines 253-262, then entry into the loop of line 264
add_knowledge(cell, count) ==
    /\ pc = "idle"
    /\ LET sf1 == safes \cup {cell}
           kn1 == BroadcastSafe(knowledge, cell)
           kn2 == Append(kn1, get_sentence(cell, count, mines, sf1))
           kn3 == ConcludeAll(kn2)
       IN  /\ moves_made' = moves_made \cup {cell}
           /\ knowledge' = kn3
           /\ parent' = Append(parent, Len(kn2))
           /\ safes' = sf1 \cup AllKnownSafes(kn3)
           /\ mines' = mines \cup AllKnownMines(kn3)
           /\ pc' = "infer"
           /\ i' = 1 /\ j' = 1
           /\ n' = Len(kn3) /\ m' = Len(kn3)
    /\ nobs' = nobs + 1
    /\ ret' = NoCell
    /\ call' = Call("add_knowledge", cell, count, None)
    /\ UNCHANGED <<height, width, board, nmarks, sentVars, argVars>>

\* the body of the inner loop without "or self.parent[i] == j"
InferBody_pairs_parent ==
    IF i = j
    THEN UNCHANGED <<knowledge, parent>>
    ELSE LET s == inferences(knowledge[i], knowledge[j])
         IN  IF s # None /\ Cardinality(s.cells) # 0
             THEN /\ knowledge' = Append(knowledge, s)
                  /\ parent' = Append(parent, j)
             ELSE UNCHANGED <<knowledge, parent>>

\* the body of the inner loop, lines 267-272, at the current i and j
InferBody ==
    IF i = j \/ parent[i] = j
    THEN UNCHANGED <<knowledge, parent>>
    ELSE LET s == inferences(knowledge[i], knowledge[j])
         IN  IF s # None /\ Cardinality(s.cells) # 0
             THEN /\ knowledge' = Append(knowledge, s)
                  /\ parent' = Append(parent, j)
             ELSE UNCHANGED <<knowledge, parent>>

\* the loop with a "continue" that does not move on to the next j
InferStep_no_advance ==
    /\ pc = "infer"
    /\ IF i = j \/ parent[i] = j
       THEN UNCHANGED <<knowledge, parent, pc, i, j, n, m>>
       ELSE /\ InferBody
            /\ IF j < m
               THEN /\ j' = j + 1
                    /\ UNCHANGED <<pc, i, n, m>>
               ELSE IF i < n
                    THEN /\ i' = i + 1
                         /\ j' = 1
                         /\ m' = Len(knowledge')
                         /\ UNCHANGED <<pc, n>>
                    ELSE /\ pc' = "idle"
                         /\ i' = 0 /\ j' = 0 /\ n' = 0 /\ m' = 0
    /\ UNCHANGED <<height, width, board, moves_made, mines, safes,
                   nobs, nmarks, ret, call, sentVars, argVars>>

\* one iteration of the nested loop, and the move to the next one
InferStep ==
    /\ pc = "infer"
    /\ InferBody
    /\ IF j < m
       THEN /\ j' = j + 1
            /\ UNCHANGED <<pc, i, n, m>>
       ELSE IF i < n
            THEN /\ i' = i + 1
                 /\ j' = 1
                 /\ m' = Len(knowledge')
                 /\ UNCHANGED <<pc, n>>
            ELSE /\ pc' = "idle"
                 /\ i' = 0 /\ j' = 0 /\ n' = 0 /\ m' = 0
    /\ UNCHANGED <<height, width, board, moves_made, mines, safes,
                   nobs, nmarks, ret, call, sentVars, argVars>>

\* the driver reveals a cell that holds no mine and reports its true count
Reveal ==
    /\ nobs < MaxObs
    /\ \E cell \in Cells :
        /\ ~ is_mine(cell)
        /\ add_knowledge(cell, nearby_mines(cell))

Next ==
    \/ Reveal
    \/ InferStep

Spec == Init /\ [][Next]_vars

\* the 3x3 board whose only mine is (2,2), and a fresh engine for it
Init3x3 ==
    /\ height = 3 /\ width = 3
    /\ board = {<<2, 2>>}
    /\ FreshAI
    /\ NoSentence
    /\ NoArgs

\* the scenario opens with (0,0); after it any safe cell is revealed, in
\* any order, a cell possibly more than once
Reveal3x3 ==
    /\ nobs < ScenarioObs
    /\ \E cell \in Cells :
        /\ ~ is_mine(cell)
        /\ nobs = 0 => cell = <<0, 0>>
        /\ add_knowledge(cell, nearby_mines(cell))

Next3x3 ==
    \/ Reveal3x3
    \/ InferStep

Spec3x3 == Init3x3 /\ [][Next3x3]_vars

----------------------------------------------------------------------------
(* The rest of MinesweeperAI's interface, called between observations *)

\* mark_mine that also takes the cell out of safes
mark_mine_exclusive(cell) ==
    /\ pc = "idle"
    /\ mines' = mines \cup {cell}
    /\ safes' = safes \ {cell}
    /\ knowledge' = BroadcastMine(knowledge, cell)
    /\ nmarks' = nmarks + 1
    /\ ret' = NoCell
    /\ call' = Call("mark_mine", cell, 0, None)
    /\ UNCHANGED <<height, width, board, moves_made, parent,
                   pc, i, j, n, m, nobs, sentVars, argVars>>

\* MinesweeperAI.mark_mine
mark_mine(cell) ==
    /\ pc = "idle"
    /\ mines' = mines \cup {cell}
    /\ knowledge' = BroadcastMine(knowledge, cell)
    /\ nmarks' = nmarks + 1
    /\ ret' = NoCell
    /\ call' = Call("mark_mine", cell, 0, None)
    /\ UNCHANGED <<height, width, board, moves_made, safes, parent,
                   pc, i, j, n, m, nobs, sentVars, argVars>>

\* MinesweeperAI.mark_safe
mark_safe(cell) ==
    /\ pc = "idle"
    /\ safes' = safes \cup {cell}
    /\ knowledge' = BroadcastSafe(knowledge, cell)
    /\ nmarks' = nmarks + 1
    /\ ret' = NoCell
    /\ call' = Call("mark_safe", cell, 0, None)
    /\ UNCHANGED <<height, width, board, moves_made, mines, parent,
                   pc, i, j, n, m, nobs, sentVars, argVars>>

\* make_safe_move without the test "move not in self.moves_made"
make_safe_move_any_safe ==
    /\ pc = "idle"
    /\ IF safes = {}
       THEN ret' = NoCell
       ELSE ret' \in safes
    /\ call' = Call("make_safe_move", NoCell, 0, None)
    /\ UNCHANGED <<height, width, board, moves_made, mines, safes, knowledge,
                   parent, pc, i, j, n, m, nobs, nmarks, sentVars, argVars>>

\* MinesweeperAI.make_safe_move: the first cell the set iteration meets
make_safe_move ==
    /\ pc = "idle"
    /\ IF safes \ moves_made = {}
       THEN ret' = NoCell
       ELSE ret' \in safes \ moves_made
    /\ call' = Call("make_safe_move", NoCell, 0, None)
    /\ UNCHANGED <<height, width, board, moves_made, mines, safes, knowledge,
                   parent, pc, i, j, n, m, nobs, nmarks, sentVars, argVars>>

\* make_random_move without the test "(i, j) not in self.mines"
make_random_move_any_unmoved ==
    /\ pc = "idle"
    /\ LET possible_places == {x \in Cells : x \notin moves_made}
       IN  IF Cardinality(possible_places) = 0
           THEN ret' = NoCell
           ELSE ret' \in possible_places
    /\ call' = Call("make_random_move", NoCell, 0, None)
    /\ UNCHANGED <<height, width, board, moves_made, mines, safes, knowledge,
                   parent, pc, i, j, n, m, nobs, nmarks, sentVars, argVars>>

\* MinesweeperAI.make_random_move
make_random_move ==
    /\ pc = "idle"
    /\ LET possible_places ==
               {x \in Cells : x \notin moves_made /\ x \notin mines}
       IN  IF Cardinality(possible_places) = 0
           THEN ret' = NoCell
           ELSE ret' \in possible_places
    /\ call' = Call("make_random_move", NoCell, 0, None)
    /\ UNCHANGED <<height, width, board, moves_made, mines, safes, knowledge,
                   parent, pc, i, j, n, m, nobs, nmarks, sentVars, argVars>>

\* MinesweeperAI.get_sentence called from outside, any cell and any count
GetSentence ==
    /\ pc = "idle"
    /\ \E cell \in Cells, count \in 0 .. MaxCount :
          call' = Call("get_sentence", cell, count,
                       get_sentence(cell, count, mines, safes))
    /\ ret' = NoCell
    /\ UNCHANGED <<height, width, board, moves_made, mines, safes, knowledge,
                   parent, pc, i, j, n, m, nobs, nmarks, sentVars, argVars>>

\* a caller passing any cell and any count
Observe ==
    /\ nobs + nmarks < MaxCalls
    /\ \E cell \in Cells, count \in 0 .. MaxCount : add_knowledge(cell, count)

MarkMine ==
    /\ nobs + nmarks < MaxCalls
    /\ \E cell \in Cells : mark_mine(cell)

MarkSafe ==
    /\ nobs + nmarks < MaxCalls
    /\ \E cell \in Cells : mark_safe(cell)

\* a direct mark_mine or mark_safe call on any cell, closing the game
MarkKnown ==
    /\ nmarks = 0
    /\ \E cell \in Cells : mark_mine(cell) \/ mark_safe(cell)

\* a game whose driver, after some reveals, marks one cell directly
NextMark ==
    \/ nmarks = 0 /\ Reveal
    \/ InferStep
    \/ MarkKnown

SpecMark == Init /\ [][NextMark]_vars

\* no board is consulted: the counts are the caller's
InitAPI ==
    /\ \E d \in Dims : height = d[1] /\ width = d[2]
    /\ board = {}
    /\ FreshAI
    /\ NoSentence
    /\ NoArgs

NextAPI ==
    \/ Observe
    \/ InferStep
    \/ MarkMine
    \/ MarkSafe
    \/ make_safe_move
    \/ make_random_move

SpecAPI == InitAPI /\ [][NextAPI]_vars

\* a game in which a sentence is asked for after a reveal
NextQuery ==
    \/ Reveal
    \/ InferStep
    \/ call.op # "get_sentence" /\ GetSentence

SpecQuery == Init /\ [][NextQuery]_vars

\* a call, once entered, runs its loop: nothing else shares the thread
FairSpec == Init /\ [][Next]_vars /\ WF_vars(InferStep)

----------------------------------------------------------------------------
(* A Sentence on its own *)

SentMarkMine ==
    \E cell \in SentCells :
        /\ before' = sent
        /\ sent' = Sentence_mark_mine(sent, cell)
        /\ lastop' = "mark_mine"
        /\ UNCHANGED <<aiVars, argVars>>

SentMarkSafe ==
    \E cell \in SentCells :
        /\ before' = sent
        /\ sent' = Sentence_mark_safe(sent, cell)
        /\ lastop' = "mark_safe"
        /\ UNCHANGED <<aiVars, argVars>>

SentConclude ==
    /\ before' = sent
    /\ sent' = conclude(sent)
    /\ lastop' = "conclude"
    /\ UNCHANGED <<aiVars, argVars>>

\* any Sentence(cells, count) a caller can construct over SentCells
InitSentence ==
    /\ \E d \in Dims : height = d[1] /\ width = d[2]
    /\ board = {}
    /\ FreshAI
    /\ \E cells \in SUBSET SentCells :
         \E count \in -1 .. Cardinality(SentCells) + 1 :
            sent = Sentence(cells, count)
    /\ before = sent
    /\ lastop = "new"
    /\ NoArgs

NextSentence ==
    \/ SentMarkMine
    \/ SentMarkSafe
    \/ SentConclude

SpecSentence == InitSentence /\ [][NextSentence]_vars

----------------------------------------------------------------------------
(* inferences on its own: any two sentences over SentCells *)

\* counts a stand-alone sentence is given: one below and one above what its
\* cells allow
SentCounts == -1 .. Cardinality(SentCells) + 1

\* MinesweeperAI.inferences called once on the two sentences
Infer ==
    /\ inferred = NotCalled
    /\ inferred' = inferences(infer_a, infer_b)
    /\ UNCHANGED <<aiVars, sentVars, infer_a, infer_b, mines_wanted>>

InitInfer ==
    /\ \E d \in Dims : height = d[1] /\ width = d[2]
    /\ board = {}
    /\ FreshAI
    /\ NoSentence
    /\ \E cells \in SUBSET SentCells, count \in SentCounts :
          infer_a = Sentence(cells, count)
    /\ \E cells \in SUBSET SentCells, count \in SentCounts :
          infer_b = Sentence(cells, count)
    /\ inferred = NotCalled
    /\ mines_wanted = 0

NextInfer == Infer

SpecInfer == InitInfer /\ [][NextInfer]_vars

----------------------------------------------------------------------------
(* Minesweeper.__init__: pc is "new" on entry, "place" inside the while loop
   of lines 27-32, "built" once the constructor has returned *)

\* lines 13-23: the fields are set and the field is laid out without mines
NewBoard ==
    /\ pc = "new"
    /\ board' = {}
    /\ pc' = "place"
    /\ UNCHANGED <<height, width, moves_made, mines, safes, knowledge, parent,
                   i, j, n, m, nobs, nmarks, ret, call, sentVars, argVars>>

\* one iteration of the while loop: a random cell gets a mine unless it has one
PlaceMine ==
    /\ pc = "place"
    /\ Cardinality(board) # mines_wanted
    /\ \E cell \in Cells :
          board' = IF cell \notin board THEN board \cup {cell} ELSE board
    /\ UNCHANGED <<height, width, moves_made, mines, safes, knowledge, parent,
                   pc, i, j, n, m, nobs, nmarks, ret, call, sentVars, argVars>>

\* the loop condition fails: line 34, and the constructor returns
BoardBuilt ==
    /\ pc = "place"
    /\ Cardinality(board) = mines_wanted
    /\ pc' = "built"
    /\ UNCHANGED <<height, width, board, moves_made, mines, safes, knowledge,
                   parent, i, j, n, m, nobs, nmarks, ret, call, sentVars,
                   argVars>>

\* Minesweeper(height, width, mines) with any number of mines from one below
\* zero to one above the number of cells
InitBoard ==
    /\ \E d \in Dims : height = d[1] /\ width = d[2]
    /\ mines_wanted \in -1 .. height * width + 1
    /\ board = {}
    /\ pc = "new"
    /\ moves_made = {} /\ mines = {} /\ safes = {}
    /\ knowledge = <<>> /\ parent = <<>>
    /\ i = 0 /\ j = 0 /\ n = 0 /\ m = 0
    /\ nobs = 0 /\ nmarks = 0
    /\ ret = NoCell
    /\ call = Call("__init__", NoCell, 0, None)
    /\ NoSentence
    /\ infer_a = Sentence({}, 0)
    /\ infer_b = Sentence({}, 0)
    /\ inferred = NotCalled

NextBoard ==
    \/ NewBoard
    \/ PlaceMine
    \/ BoardBuilt

SpecBoard == InitBoard /\ [][NextBoard]_vars

----------------------------------------------------------------------------
(* Properties *)

Indices == DOMAIN knowledge

\* the number of mines the board really holds among cells
TrueCount(cells) == Cardinality(cells \cap board)

\* a call has returned
Returned == pc = "idle" /\ nobs > 0

\* C1: under truthful observations, at every return every cell of the
\* engine's mines is a mine of the board and no cell of its safes is one,
\* so no safe move is a mine.
C1_Soundness ==
    pc = "idle" =>
        /\ mines \subseteq board
        /\ safes \cap board = {}
        /\ (safes \ moves_made) \cap board = {}

\* a return after which the engine holds a concluded mine, an unplayed safe
\* cell and a derived sentence
C1_Witness ==
    /\ Returned
    /\ mines # {}
    /\ safes \ moves_made # {}
    /\ \E k \in Indices : parent[k] # k

\* sentence k, appended by the running inference pass, is b.cells - a.cells
\* with count b.count - a.count for its recorded parent b and a sentence a
\* the pass started with, a.cells a subset of b.cells
DerivedFromPair(k) ==
    LET b == parent[k]
    IN  \E a \in 1 .. n :
            /\ a # b
            /\ knowledge[a].cells # {}
            /\ knowledge[a].cells \subseteq knowledge[b].cells
            /\ knowledge[k].cells = knowledge[b].cells \ knowledge[a].cells
            /\ knowledge[k].count = knowledge[b].count - knowledge[a].count

\* C2: under truthful observations every sentence of knowledge with
\* non-empty cells has a count equal to the number of mines among its
\* cells, in every state and so at every return, and every sentence the
\* inference pass appends is b.cells - a.cells with count
\* b.count - a.count for two sentences with a.cells a subset of b.cells.
C2_CountsTrue ==
    /\ \A k \in Indices :
          knowledge[k].cells # {} =>
              knowledge[k].count = TrueCount(knowledge[k].cells)
    /\ pc = "infer" =>
          \A k \in Indices : k > n => DerivedFromPair(k)

\* a derived sentence with unresolved cells holding a mine, after a return
C2_Witness ==
    /\ Returned
    /\ \E k \in Indices :
        /\ parent[k] # k
        /\ knowledge[k].cells # {}
        /\ knowledge[k].count > 0
        /\ knowledge[k].cells \subseteq knowledge[parent[k]].cells

\* C3: when add_knowledge returns, no sentence still holds a cell of safes
\* or mines among its unresolved cells.
C3_Broadcast ==
    pc = "idle" =>
        \A k \in Indices : knowledge[k].cells \cap (safes \cup mines) = {}

\* C4: when add_knowledge returns and knowledge holds sentences A and B
\* built from observations, A.cells non-empty and a strict subset of
\* B.cells, then B.cells - A.cells is in safes if B.count - A.count = 0 and
\* in mines if B.count - A.count is the size of the difference.
C4_DerivedFolded ==
    pc = "idle" =>
        \A a, b \in Indices :
            LET A == knowledge[a]
                B == knowledge[b]
                D == B.cells \ A.cells
            IN  ( /\ parent[a] = a /\ parent[b] = b
                  /\ A.cells # {}
                  /\ A.cells \subseteq B.cells
                  /\ D # {} )
                => /\ (B.count - A.count = 0 => D \subseteq safes)
                   /\ (B.count - A.count = Cardinality(D) => D \subseteq mines)

\* a further simplification pass over kn adds no cell to safes or mines
NoNewCell(kn) ==
    /\ AllKnownSafes(ConcludeAll(kn)) \subseteq safes
    /\ AllKnownMines(ConcludeAll(kn)) \subseteq mines

\* a further inference pass over kn yields no sentence that is not already
\* in kn (equal cells and count)
NoNewSentence(kn) ==
    \A a, b \in DOMAIN kn :
        (a # b /\ parent[a] # b) =>
            LET s == inferences(kn[a], kn[b])
            IN  s # None =>
                    \E k \in DOMAIN kn :
                        kn[k].cells = s.cells /\ kn[k].count = s.count

\* C5: when add_knowledge returns, one more round of the simplification
\* pass and the inference pass changes nothing.
C5_FixedPoint ==
    pc = "idle" =>
        /\ NoNewCell(knowledge)
        /\ NoNewSentence(ConcludeAll(knowledge))

\* C6: every call of add_knowledge returns.
C6_Termination == (pc = "infer") ~> (pc = "idle")

\* a call whose inference loop has appended a sentence and is still running
C6_Witness ==
    /\ pc = "infer"
    /\ Len(knowledge) > n
    /\ i < n

\* C7: no call removes a cell from moves_made, safes or mines, or a
\* sentence from knowledge.
C7_Monotone ==
    [][ /\ moves_made \subseteq moves_made'
        /\ safes \subseteq safes'
        /\ mines \subseteq mines'
        /\ Len(knowledge) <= Len(knowledge')
        /\ Len(parent) <= Len(parent') ]_vars

\* a state reached through an observation, a direct mark and a move query
C7_Witness ==
    /\ nobs > 0
    /\ nmarks > 0
    /\ ret # NoCell
    /\ mines # {}
    /\ safes # {}

CountInRange(s) == 0 <= s.count /\ s.count <= Cardinality(s.cells)

\* C8: conclude keeps 0 <= count <= |cells|: a sentence within that range
\* before conclude is within it after.
C8_CountInRange ==
    (lastop = "conclude" /\ CountInRange(before)) => CountInRange(sent)

\* C9: after conclude, a sentence whose count was 0 has no cells and its
\* former cells are in safe_cells and not in mines_cells; one whose count
\* was |cells| > 0 has no cells and its former cells are in mines_cells and
\* not in safe_cells; any other sentence is unchanged; and a second
\* conclude changes nothing.
C9_ConcludePost ==
    lastop = "conclude" =>
        /\ before.count = 0 =>
              /\ sent.cells = {}
              /\ before.cells \subseteq sent.safe_cells
              /\ before.cells \cap sent.mines_cells = {}
        /\ (before.count = Cardinality(before.cells) /\ before.cells # {}) =>
              /\ sent.cells = {}
              /\ before.cells \subseteq sent.mines_cells
              /\ before.cells \cap sent.safe_cells = {}
        /\ (before.count # 0 /\ before.count # Cardinality(before.cells)) =>
              sent = before
        /\ sent.count = before.count
        /\ conclude(sent) = sent

\* conclude has resolved a sentence of two or more cells that are all mines
C9_Witness ==
    /\ lastop = "conclude"
    /\ Cardinality(before.cells) >= 2
    /\ before.count = Cardinality(before.cells)
    /\ sent.cells = {}
    /\ sent.mines_cells = before.cells

\* C10: the inference pass never appends a sentence whose count is negative
\* or exceeds the size of its cells: the sentences appended so far by the
\* running pass are all within range.
C10_NoInconsistentAppend ==
    pc = "infer" =>
        \A k \in Indices : k > n => CountInRange(knowledge[k])

\* the call add_knowledge((1,1), 1), made when (0,0) had been revealed and
\* known was already in safes
ScenarioCall(known) ==
    /\ call.op = "add_knowledge"
    /\ call.cell = <<1, 1>>
    /\ call.count = 1
    /\ <<0, 0>> \in call.moves_made
    /\ known \subseteq call.safes

PriorSafes == {<<0, 1>>, <<0, 2>>, <<1, 0>>, <<2, 0>>, <<2, 1>>}

\* C11 as stated: on the 3x3 board with its only mine at (2,2), once (0,0)
\* has been revealed and (0,1),(0,2),(1,0),(2,0),(2,1) are in safes,
\* add_knowledge((1,1), 1) returns with (2,2) in mines; (2,2) is never in
\* moves_made.
C11_Scenario ==
    /\ <<2, 2>> \notin moves_made
    /\ (pc = "idle" /\ ScenarioCall(PriorSafes)) => <<2, 2>> \in mines

\* C11 amended: the same with (1,2) in safes as well, that is with every
\* other cell of the board known safe when (1,1) is revealed.
C11_ScenarioAllSafe ==
    /\ <<2, 2>> \notin moves_made
    /\ (pc = "idle" /\ ScenarioCall(PriorSafes \cup {<<1, 2>>})) =>
           <<2, 2>> \in mines

\* that call has returned, (1,1) was revealed for the first time, and (2,2)
\* was not yet known to be a mine
C11_Witness ==
    /\ pc = "idle"
    /\ ScenarioCall(PriorSafes \cup {<<1, 2>>})
    /\ <<1, 1>> \notin call.moves_made
    /\ <<2, 2>> \notin call.mines
    /\ <<2, 2>> \in mines

\* the engine's fields are as the last call found them
EngineUntouched ==
    /\ moves_made = call.moves_made
    /\ mines = call.mines
    /\ safes = call.safes
    /\ knowledge = call.knowledge
    /\ parent = call.parent

\* the cells of the board at most one row and one column away from cell
Around(cell) ==
    {x \in Cells : /\ x # cell
                   /\ x[1] - cell[1] \in {-1, 0, 1}
                   /\ x[2] - cell[2] \in {-1, 0, 1}}

\* C12: get_sentence(cell, count) returns the in-bounds neighbours of cell
\* that are in neither mines nor safes, with count minus the number of
\* in-bounds neighbours in mines, and changes no field of the engine.
C12_GetSentence ==
    call.op = "get_sentence" =>
        /\ call.result.cells = Around(call.cell) \ (mines \cup safes)
        /\ call.result.count =
               call.count - Cardinality(Around(call.cell) \cap mines)
        /\ call.result.safe_cells = {}
        /\ call.result.mines_cells = {}
        /\ EngineUntouched

\* get_sentence has met a neighbour in mines, one in safes and an open one
C12_Witness ==
    /\ call.op = "get_sentence"
    /\ Around(call.cell) \cap mines # {}
    /\ Around(call.cell) \cap (safes \ mines) # {}
    /\ call.result.cells # {}
    /\ call.result.count < call.count

\* a.cells is non-empty and a strict subset of b.cells
StrictSubset(a, b) ==
    /\ a.cells # {}
    /\ a.cells \subseteq b.cells
    /\ a.cells # b.cells

\* C13: inferences(a, b) returns a sentence with cells b.cells - a.cells and
\* count b.count - a.count exactly when a.cells is non-empty and a strict
\* subset of b.cells, None in every other case, and modifies neither a nor b.
C13_Infer ==
    [][(inferred = NotCalled /\ inferred' # NotCalled) =>
          /\ infer_a' = infer_a
          /\ infer_b' = infer_b
          /\ IF StrictSubset(infer_a, infer_b)
             THEN /\ inferred' # None
                  /\ inferred'.cells = infer_b.cells \ infer_a.cells
                  /\ inferred'.count = infer_b.count - infer_a.count
             ELSE inferred' = None]_vars

\* inferences has returned the difference of a two-cell sentence from a larger
\* one
C13_Witness ==
    /\ inferred # NotCalled
    /\ inferred # None
    /\ Cardinality(infer_a.cells) >= 2
    /\ inferred.cells = infer_b.cells \ infer_a.cells
    /\ inferred.count = infer_b.count - infer_a.count

\* C14: make_safe_move returns a cell of safes not in moves_made when there
\* is one, None exactly when safes is a subset of moves_made, and leaves
\* moves_made, safes, mines and knowledge as they were.
C14_SafeMove ==
    call.op = "make_safe_move" =>
        /\ (ret = NoCell) <=> (call.safes \subseteq call.moves_made)
        /\ ret # NoCell => ret \in call.safes \ call.moves_made
        /\ EngineUntouched

\* make_safe_move has chosen among several safe cells, some already moved on
C14_Witness ==
    /\ call.op = "make_safe_move"
    /\ ret \in safes \ moves_made
    /\ Cardinality(safes \ moves_made) >= 2
    /\ safes \cap moves_made # {}

\* the board cells in neither moves_made nor mines
Unexplored == Cells \ (moves_made \cup mines)

\* C15: make_random_move returns an in-bounds cell in neither moves_made nor
\* mines when there is one, every such cell being a possible result, None
\* exactly when every cell of the board is in moves_made or mines, and
\* changes no field of the engine.
C15_RandomMove ==
    /\ call.op = "make_random_move" =>
          /\ (ret = NoCell) <=> (Unexplored = {})
          /\ ret # NoCell => ret \in Unexplored
          /\ EngineUntouched
    /\ pc = "idle" =>
          \A x \in Unexplored : ENABLED (make_random_move /\ ret' = x)

\* make_random_move has chosen among several cells, with a known mine and a
\* made move left out
C15_Witness ==
    /\ call.op = "make_random_move"
    /\ ret \in Unexplored
    /\ Cardinality(Unexplored) >= 2
    /\ mines \ moves_made # {}
    /\ moves_made \ mines # {}

\* make_random_move has found every cell of the board moved on or mined
C15_NoneLeft ==
    /\ call.op = "make_random_move"
    /\ ret = NoCell
    /\ mines # {}

\* C16: the board constructor validates its configuration: it goes on to
\* place mines, and returns a board, only when the number of mines asked for
\* is at least 0 and below height * width; in particular it never returns a
\* board for a number out of that range and never starts a placement loop
\* that cannot end.
C16_Validates ==
    pc \in {"place", "built"} =>
        /\ 0 <= mines_wanted
        /\ mines_wanted < height * width

\* C17: the inference pass never appends a derived sentence equal (same cells
\* and same count) to a sentence already in knowledge: inside a pass, no
\* sentence appended by it is equal to one standing before it.
C17_NoDuplicate ==
    pc = "infer" =>
        \A k \in (n + 1) .. Len(knowledge) :
            \A y \in 1 .. (k - 1) :
                ~ Sentence_eq(knowledge[y], knowledge[k])

\* C18: the inference pass tries inferences(knowledge[i], knowledge[j]) only
\* for i # j and parent[i] # j; parent is as long as knowledge at every
\* return; a sentence built from an observation is its own parent, and a
\* sentence derived from (a, b) has the index of b as its parent.
C18_ParentSkip ==
    [][/\ (pc = "idle" /\ pc' = "infer") =>
             /\ Len(knowledge') = Len(knowledge) + 1
             /\ parent' = Append(parent, Len(knowledge'))
       /\ pc = "infer" =>
             IF knowledge' # knowledge
             THEN /\ i # j
                  /\ parent[i] # j
                  /\ StrictSubset(knowledge[i], knowledge[j])
                  /\ Len(knowledge') = Len(knowledge) + 1
                  /\ SubSeq(knowledge', 1, Len(knowledge)) = knowledge
                  /\ knowledge'[Len(knowledge')].cells =
                         knowledge[j].cells \ knowledge[i].cells
                  /\ parent' = Append(parent, j)
             ELSE parent' = parent
       /\ pc' = "idle" => Len(parent') = Len(knowledge')]_vars

\* the pass stands at a derived sentence and its parent, a pair inferences
\* would answer, after appending a sentence whose parent is another one
C18_Witness ==
    /\ pc = "infer"
    /\ i # j
    /\ parent[i] = j
    /\ StrictSubset(knowledge[i], knowledge[j])
    /\ Len(knowledge) > n
    /\ parent[Len(knowledge)] < Len(knowledge)

\* the sentences of knowledge that held the marked cell when the call was made
Holding == {k \in DOMAIN call.knowledge : call.cell \in call.knowledge[k].cells}

\* C19: after the engine's mark_safe(cell), cell is in safes, no sentence has
\* cell in its cells, and every sentence that held it keeps its count; after
\* the engine's mark_mine(cell), cell is in mines, no sentence has cell in its
\* cells, and every sentence that held it has its count lowered by exactly 1;
\* sentences that did not hold cell are unchanged.
C19_MarkBroadcast ==
    call.op \in {"mark_safe", "mark_mine"} =>
        /\ call.op = "mark_safe" => call.cell \in safes
        /\ call.op = "mark_mine" => call.cell \in mines
        /\ DOMAIN knowledge = DOMAIN call.knowledge
        /\ \A k \in DOMAIN knowledge :
              /\ call.cell \notin knowledge[k].cells
              /\ k \notin Holding => knowledge[k] = call.knowledge[k]
              /\ k \in Holding =>
                    knowledge[k].count =
                        IF call.op = "mark_mine"
                        THEN call.knowledge[k].count - 1
                        ELSE call.knowledge[k].count

\* mark_mine has met a sentence holding the cell, left with cells to resolve,
\* and a sentence not holding it
C19_Witness ==
    /\ call.op = "mark_mine"
    /\ \E k \in Holding : knowledge[k].cells # {}
    /\ \E k \in DOMAIN knowledge \ Holding : knowledge[k].cells # {}

\* mark_safe has met a sentence holding the cell and a sentence not holding it
C19_WitnessSafe ==
    /\ call.op = "mark_safe"
    /\ Holding # {}
    /\ \E k \in DOMAIN knowledge \ Holding : knowledge[k].cells # {}

\* C20: after any sequence of add_knowledge calls, and at every step of one,
\* moves_made is a subset of safes and no cell of moves_made is in the cells
\* of any sentence of knowledge, observed or derived.
C20_MovesResolved ==
    /\ moves_made \subseteq safes
    /\ \A k \in Indices : knowledge[k].cells \cap moves_made = {}

\* a call has revealed a cell that earlier sentences held, and its pass has
\* derived a sentence on top of the observed one
C20_Witness ==
    /\ pc = "idle"
    /\ call.op = "add_knowledge"
    /\ \E k \in DOMAIN call.knowledge : call.cell \in call.knowledge[k].cells
    /\ Len(knowledge) > Len(call.knowledge) + 1
    /\ \E k \in Indices : knowledge[k].cells # {}

====
